---- MODULE Spec2Model ----
(***************************************************************************)
(* Model of lapce-plugin-rust (src/src/lib.rs): the plugin side of the     *)
(* host/plugin JSON-RPC bridge.  The plugin writes lines to stdout and     *)
(* signals the host with host_handle_rpc; the host writes lines to the     *)
(* plugin's stdin and calls handle_rpc.                                    *)
(***************************************************************************)
EXTENDS Integers, Sequences, FiniteSets, TLC

VARIABLES
    id,          \* PluginServerRpcHandler.id : AtomicU64 (lib.rs:101,149)
    stdin,       \* lines the host has written and the plugin has not read
    stdinClosed, \* the host closed its end: read_line yields Ok(0)
    stdout,      \* lines written with println! (lib.rs:306)
    hooks,       \* number of host_handle_rpc() invocations (lib.rs:352)
    stderrs,     \* number of host_handle_stderr() invocations (lib.rs:353)
    pc,          \* per thread: position inside the PluginServerRpcHandler call
    cur,         \* per thread: locals of the call in progress
    panicked,    \* a todo!() was reached (lib.rs:292)
    nHost,       \* number of lines the host has written so far
    budget,      \* number of calls the plugin's code will still make
    arrivedRN,   \* serial numbers of the host's Request/Notification lines
    dispatched,  \* serial numbers of the lines handed to a callback, in order
    allocated,   \* values returned by fetch_add, in the order of the atomic op
    last         \* the operation that completed last, with what it did

vars == <<id, stdin, stdinClosed, stdout, hooks, stderrs, pc, cur, panicked,
          nHost, budget, arrivedRN, dispatched, allocated, last>>

----------------------------------------------------------------------------
(* Bounds of the model.                                                    *)

MaxHostLines == 2
MaxCalls == 2
MaxAllocs == 3
NumThreads == 2

Threads == 1..NumThreads
\* the thread the host calls handle_rpc on
Main == CHOOSE t \in Threads : \A u \in Threads : t <= u

----------------------------------------------------------------------------
(* 64-bit integers.  A number is written [hi, lo] and denotes              *)
(* hi * 2^63 + lo with |lo| far below 2^62, so the representation is       *)
(* unique and the arithmetic below is exact 64-bit arithmetic on the       *)
(* values that occur.                                                      *)

N(h, l) == [hi |-> h, lo |-> l]

\* the range of i64: -2^63 .. 2^63-1
InI64(n) == \/ n.hi = -1 /\ n.lo >= 0
            \/ n.hi = 0
            \/ n.hi = 1 /\ n.lo < 0

\* the range of u64: 0 .. 2^64-1
InU64(n) == \/ n.hi = 0 /\ n.lo >= 0
            \/ n.hi = 1
            \/ n.hi = 2 /\ n.lo < 0

IsNegative(n) == n.hi < 0 \/ (n.hi = 0 /\ n.lo < 0)

\* `n as u64` for n : i64 (two's complement reinterpretation)
AsU64(n) == IF IsNegative(n) THEN N(n.hi + 2, n.lo) ELSE n

\* `id as i64` for id : u64
AsI64(n) == IF (n.hi = 1 /\ n.lo >= 0) \/ n.hi = 2 THEN N(n.hi - 2, n.lo) ELSE n

----------------------------------------------------------------------------
(* JSON values, as far as the bridge looks at them.                        *)

Absent == [k |-> "absent", f |-> {}]
JNull == [k |-> "null", f |-> {}]
Obj(fields) == [k |-> "obj", f |-> fields]
EmptyObj == Obj({})
ObjX1 == Obj({<<"x", 1>>})
ObjY2 == Obj({<<"y", 2>>})
\* a caller-supplied value whose Serialize implementation fails
Unserializable == [k |-> "unserializable", f |-> {}]

\* the id member of a line
IdAbsent == [k |-> "absent", n |-> N(0, 0), s |-> <<>>]
IdNull == [k |-> "null", n |-> N(0, 0), s |-> <<>>]
IdNum(num) == [k |-> "num", n |-> num, s |-> <<>>]
IdStr(str) == [k |-> "str", n |-> N(0, 0), s |-> str]

\* the error member of a line
NoError == [k |-> "absent", code |-> 0, message |-> ""]
RpcError(c, m) == [k |-> "err", code |-> c, message |-> m]

\* One line of text: a JSON object with the members it has, or text that
\* is no JSON object, or bytes that are no UTF-8, or the empty read at end
\* of input.
Line(i, m, p, r, e) ==
    [json |-> "object", id |-> i, method |-> m, params |-> p, result |-> r, error |-> e]
Garbage == [Line(IdAbsent, <<>>, Absent, Absent, NoError) EXCEPT !.json = "garbage"]
BadUtf8 == [Line(IdAbsent, <<>>, Absent, Absent, NoError) EXCEPT !.json = "badutf8"]
EofLine == [Line(IdAbsent, <<>>, Absent, Absent, NoError) EXCEPT !.json = "eof"]

RequestLine(i, m, p) == Line(i, <<m>>, p, Absent, NoError)
NotificationLine(m, p) == Line(IdAbsent, <<m>>, p, Absent, NoError)
SuccessLine(i, r) == Line(i, <<>>, Absent, r, NoError)
ErrorLine(i, e) == Line(i, <<>>, Absent, Absent, e)

----------------------------------------------------------------------------
(* Results.                                                                *)

Ok(v) == [ok |-> TRUE, kind |-> "Ok", val |-> v, code |-> 0, message |-> ""]
Err(kind, c, m) == [ok |-> FALSE, kind |-> kind, val |-> Absent, code |-> c, message |-> m]
\* jsonrpc_lite::Error::invalid_request()
invalid_request == Err("JsonRpc", -32600, "Invalid request")

----------------------------------------------------------------------------
(* str::parse::<u64> (lib.rs:253) on a string given as its characters.     *)

DigitOf(c) ==
    CASE c = "0" -> 0 [] c = "1" -> 1 [] c = "2" -> 2 [] c = "3" -> 3
      [] c = "4" -> 4 [] c = "5" -> 5 [] c = "6" -> 6 [] c = "7" -> 7
      [] c = "8" -> 8 [] c = "9" -> 9 [] OTHER -> -1

RECURSIVE DecimalValue(_, _)
DecimalValue(s, acc) ==
    IF s = <<>> THEN acc
    ELSE DecimalValue(Tail(s), acc * 10 + DigitOf(Head(s)))

\* The strings of the model are a few characters long, so the value
\* never leaves u64 (no overflow error arises).
ParseU64(s) ==
    LET t == IF s # <<>> /\ Head(s) = "+" THEN Tail(s) ELSE s
    IN  IF t = <<>> \/ \E i \in 1..Len(t) : DigitOf(t[i]) < 0
        THEN [ok |-> FALSE, val |-> N(0, 0)]
        ELSE [ok |-> TRUE, val |-> N(0, DecimalValue(t, 0))]

----------------------------------------------------------------------------
(* jsonrpc_lite::JsonRpc::parse (called at lib.rs:217 and lib.rs:261):     *)
(* serde's untagged choice among Request {jsonrpc, method, params?, id},   *)
(* Notification {jsonrpc, method, params?}, Success {jsonrpc, result, id}  *)
(* and Error {jsonrpc, error, id}, each refusing unknown members, with     *)
(* Id = Num(i64) | Str(String) | None(()) and params an object or absent.  *)

\* the id member deserializes as an Id
IdDecodes(i) ==
    \/ i.k = "null"
    \/ i.k = "str"
    \/ i.k = "num" /\ InI64(i.n)

\* Option<Params>: absent and null both give None
ParamsDecode(p) == IF p.k = "null" THEN Absent ELSE p

ParseError ==
    [tag |-> "ParseError", id |-> IdAbsent, method |-> <<>>, params |-> Absent,
     result |-> Absent, error |-> NoError]

JsonRpcParse(line) ==
    LET has_id == line.id.k # "absent"
        has_method == line.method # <<>>
        has_params == line.params.k # "absent"
        has_result == line.result.k # "absent"
        has_error == line.error.k # "absent"
        rpc(tag) == [tag |-> tag, id |-> line.id, method |-> line.method,
                     params |-> ParamsDecode(line.params),
                     result |-> line.result, error |-> line.error]
    IN  IF line.json # "object" THEN ParseError
        ELSE IF has_method /\ has_id /\ IdDecodes(line.id)
                /\ ~has_result /\ ~has_error
             THEN rpc("Request")
        ELSE IF has_method /\ ~has_id /\ ~has_result /\ ~has_error
             THEN rpc("Notification")
        ELSE IF has_result /\ has_id /\ IdDecodes(line.id)
                /\ ~has_method /\ ~has_params /\ ~has_error
             THEN rpc("Success")
        ELSE IF has_error /\ has_id /\ IdDecodes(line.id)
                /\ ~has_method /\ ~has_params /\ ~has_result
             THEN rpc("Error")
        ELSE ParseError

\* JsonRpc::get_result, get_error, get_id, get_method, get_params: Some only
\* for the variants that carry the member (Absent stands for None)
get_result(rpc) == IF rpc.tag = "Success" THEN rpc.result ELSE Absent
get_error(rpc) == IF rpc.tag = "Error" THEN rpc.error ELSE NoError
get_id(rpc) == IF rpc.tag \in {"Request", "Success", "Error"} THEN rpc.id ELSE IdAbsent
get_method(rpc) == IF rpc.tag \in {"Request", "Notification"} THEN rpc.method ELSE <<>>
\* mutant of get_params: absent params default to the empty object
get_params_default(rpc) ==
    IF rpc.tag \in {"Request", "Notification"}
    THEN IF rpc.params.k = "absent" THEN EmptyObj ELSE rpc.params
    ELSE Absent
get_params(rpc) == IF rpc.tag \in {"Request", "Notification"} THEN rpc.params ELSE Absent

----------------------------------------------------------------------------
(* number_from_id (lib.rs:250-256)                                         *)

number_from_id(i) ==
    IF i.k = "num" THEN [ok |-> TRUE, val |-> AsU64(i.n), err |-> Ok(Absent)]
    ELSE IF i.k = "str"
         THEN IF ParseU64(i.s).ok
              THEN [ok |-> TRUE, val |-> ParseU64(i.s).val, err |-> Ok(Absent)]
              ELSE [ok |-> FALSE, val |-> N(0, 0),
                    err |-> Err("ParseInt", 0, "invalid digit found in string")]
    ELSE [ok |-> FALSE, val |-> N(0, 0), err |-> Err("Other", 0, "id is not provided")]

----------------------------------------------------------------------------
(* serde_json::to_value of the caller's params (lib.rs:212, 233, 239) and  *)
(* serde_json::from_value::<D> of a reply's result (lib.rs:220).           *)

to_value(p) ==
    IF p.k = "unserializable" THEN Err("Serde", 0, "serialization failed") ELSE Ok(p)

\* D = "Value" is serde_json::Value itself; D = "Struct" is a derived
\* struct such as StartLspServerResult, which decodes from an object only.
ResultTypes == {"Value", "Struct"}
from_value(D, v) ==
    IF D = "Value" THEN Ok(v)
    ELSE IF v.k = "obj" THEN Ok([k |-> "struct", f |-> v.f])
    ELSE Err("Serde", 0, "invalid type")

----------------------------------------------------------------------------
(* std::io::stdin().read_line (lib.rs:215, 260): the next line, the empty  *)
(* read at end of input, or an I/O error for bytes that are no UTF-8.      *)

NoLine == [Line(IdAbsent, <<>>, Absent, Absent, NoError) EXCEPT !.json = "none"]
\* mutant of CanRead: read_line waits at end of input as it does for a line
CanRead_line_only == stdin # <<>>
CanRead == stdin # <<>> \/ stdinClosed
read_line == IF stdin # <<>> THEN Head(stdin) ELSE [n |-> 0, line |-> EofLine]
AfterRead == IF stdin # <<>> THEN Tail(stdin) ELSE stdin
IoError == Err("Io", 0, "stream did not contain valid UTF-8")

----------------------------------------------------------------------------
(* host_request, from the read on (lib.rs:215-229)                         *)

\* mutant of host_request_result: the result member is decoded as unit
host_request_result_unit(line, D) ==
    IF line.json = "badutf8" THEN IoError
    ELSE LET rpc == JsonRpcParse(line)
         IN  IF rpc.tag = "ParseError" THEN invalid_request
             ELSE IF get_result(rpc).k # "absent" THEN Ok(JNull)
             ELSE IF get_error(rpc).k # "absent"
                  THEN Err("JsonRpc", get_error(rpc).code, get_error(rpc).message)
             ELSE invalid_request

\* mutant of host_request_result: an Error reply is reported as an invalid
\* request, without the code and message the host sent
host_request_result_generic(line, D) ==
    IF line.json = "badutf8" THEN IoError
    ELSE LET rpc == JsonRpcParse(line)
         IN  IF rpc.tag = "ParseError" THEN invalid_request
             ELSE IF get_result(rpc).k # "absent" THEN from_value(D, get_result(rpc))
             ELSE invalid_request

host_request_result(line, D) ==
    IF line.json = "badutf8" THEN IoError
    ELSE LET rpc == JsonRpcParse(line)
         IN  IF rpc.tag = "ParseError" THEN invalid_request
             ELSE IF get_result(rpc).k # "absent" THEN from_value(D, get_result(rpc))
             ELSE IF get_error(rpc).k # "absent"
                  THEN Err("JsonRpc", get_error(rpc).code, get_error(rpc).message)
             ELSE invalid_request

----------------------------------------------------------------------------
(* parse_stdin (lib.rs:258-296), after the read.  r is "Ok" with the       *)
(* PluginServerRpc, "Err" with the PluginError, or "Panic" for todo!().    *)

NoRpc == [tag |-> "", id |-> N(0, 0), method |-> "", params |-> Absent]
ParseOk(tag, i, m, p) ==
    [r |-> "Ok", rpc |-> [tag |-> tag, id |-> i, method |-> m, params |-> p],
     err |-> Ok(Absent)]
ParseErr(e) == [r |-> "Err", rpc |-> NoRpc, err |-> e]
ParsePanic == [r |-> "Panic", rpc |-> NoRpc, err |-> Ok(Absent)]

parse_stdin(line) ==
    IF line.json = "badutf8" THEN ParseErr(IoError)
    ELSE LET value == JsonRpcParse(line)
         IN  IF value.tag = "Request"
             THEN IF get_id(value).k = "absent"
                  THEN ParseErr(Err("Other", 0, "request is missing id"))
                  ELSE IF ~number_from_id(get_id(value)).ok
                  THEN ParseErr(number_from_id(get_id(value)).err)
                  ELSE IF get_method(value) = <<>>
                  THEN ParseErr(Err("Other", 0, "request is missing method"))
                  ELSE IF get_params(value).k = "absent"
                  THEN ParseErr(Err("Other", 0, "request is missing params"))
                  ELSE ParseOk("Request", number_from_id(get_id(value)).val,
                               get_method(value)[1], get_params(value))
             ELSE IF value.tag = "Notification"
             THEN IF get_method(value) = <<>>
                  THEN ParseErr(Err("Other", 0, "notification is missing method"))
                  ELSE IF get_params(value).k = "absent"
                  THEN ParseErr(Err("Other", 0, "notification is missing params"))
                  ELSE ParseOk("Notification", N(0, 0), get_method(value)[1],
                               get_params(value))
             ELSE ParsePanic

\* the LapcePlugin callback handle_rpc invokes for a PluginServerRpc
\* (lib.rs:129-140)
Callbacks(res) ==
    IF res.r # "Ok" THEN <<>>
    ELSE IF res.rpc.tag = "Request"
         THEN <<[cb |-> "handle_request", id |-> res.rpc.id,
                 method |-> res.rpc.method, params |-> res.rpc.params]>>
    ELSE <<[cb |-> "handle_notification", id |-> N(0, 0),
            method |-> res.rpc.method, params |-> res.rpc.params]>>

----------------------------------------------------------------------------
(* The lines the send_host_* functions print (lib.rs:310-348)              *)

InvalidParamsCode == -32602
request_json(i, m, p) == RequestLine(IdNum(i), m, p)
notification_json(m, p) == NotificationLine(m, p)
success_json(i, r) == SuccessLine(IdNum(AsI64(i)), r)
error_json(i, msg) == ErrorLine(IdNum(AsI64(i)), RpcError(InvalidParamsCode, msg))

----------------------------------------------------------------------------
(* State of a thread and the record of the last completed operation.       *)

NoCall == [op |-> "none", id |-> N(0, 0), method |-> "", params |-> Absent, D |-> "Value"]
Call(op, i, m, p, D) == [op |-> op, id |-> i, method |-> m, params |-> p, D |-> D]

Done(op, call, n, line, outcome, calls) ==
    [op |-> op, call |-> call, n |-> n, line |-> line, outcome |-> outcome,
     calls |-> calls]
Nothing == Done("none", NoCall, 0, NoLine, Ok(Absent), <<>>)

\* mutant of fetch_add: the value after the increment is returned
fetch_add_post(v) == [ret |-> v + 1, new |-> v + 1]

\* AtomicU64::fetch_add(1, Relaxed) (lib.rs:211): one atomic step
fetch_add(v) == [ret |-> v, new |-> v + 1]

Start(calls) ==
    /\ id = 0
    /\ stdin = <<>>
    /\ stdinClosed = FALSE
    /\ stdout = <<>>
    /\ hooks = 0
    /\ stderrs = 0
    /\ pc = [t \in Threads |-> "idle"]
    /\ cur = [t \in Threads |-> NoCall]
    /\ panicked = FALSE
    /\ nHost = 0
    /\ budget = calls
    /\ arrivedRN = {}
    /\ dispatched = <<>>
    /\ allocated = <<>>
    /\ last = Nothing

Init == Start(MaxCalls)

CanCall(t) == pc[t] = "idle" /\ ~panicked /\ budget > 0

----------------------------------------------------------------------------
(* host_request (lib.rs:206-230), step by step                             *)

\* lib.rs:211
host_request_fetch_add(t, m, p, D) ==
    /\ CanCall(t)
    /\ budget' = budget - 1
    /\ id' = fetch_add(id).new
    /\ allocated' = Append(allocated, fetch_add(id).ret)
    /\ cur' = [cur EXCEPT ![t] = Call("host_request", N(0, fetch_add(id).ret), m, p, D)]
    /\ pc' = [pc EXCEPT ![t] = "request:allocated"]
    /\ UNCHANGED <<stdin, stdinClosed, stdout, hooks, stderrs, panicked, nHost,
                   arrivedRN, dispatched, last>>

\* mutant of host_request_write: the Request line is printed twice
host_request_write_resend(t) ==
    /\ pc[t] = "request:allocated"
    /\ ~panicked
    /\ IF to_value(cur[t].params).ok
       THEN /\ stdout' = stdout \o
                   <<request_json(cur[t].id, cur[t].method, to_value(cur[t].params).val),
                     request_json(cur[t].id, cur[t].method, to_value(cur[t].params).val)>>
            /\ pc' = [pc EXCEPT ![t] = "request:written"]
            /\ UNCHANGED <<cur, last>>
       ELSE /\ last' = Done("host_request", cur[t], 0, NoLine,
                            to_value(cur[t].params), <<>>)
            /\ pc' = [pc EXCEPT ![t] = "idle"]
            /\ cur' = [cur EXCEPT ![t] = NoCall]
            /\ UNCHANGED stdout
    /\ UNCHANGED <<id, stdin, stdinClosed, hooks, stderrs, panicked, nHost, budget,
                   arrivedRN, dispatched, allocated>>

\* mutant of host_request_write: the Request line is printed, with null for
\* params that do not serialize, before the serialization error is returned
host_request_write_unchecked(t) ==
    /\ pc[t] = "request:allocated"
    /\ ~panicked
    /\ IF to_value(cur[t].params).ok
       THEN /\ stdout' = Append(stdout, request_json(cur[t].id, cur[t].method,
                                                     to_value(cur[t].params).val))
            /\ pc' = [pc EXCEPT ![t] = "request:written"]
            /\ UNCHANGED <<cur, last>>
       ELSE /\ stdout' = Append(stdout, request_json(cur[t].id, cur[t].method, JNull))
            /\ last' = Done("host_request", cur[t], 0, NoLine,
                            to_value(cur[t].params), <<>>)
            /\ pc' = [pc EXCEPT ![t] = "idle"]
            /\ cur' = [cur EXCEPT ![t] = NoCall]
    /\ UNCHANGED <<id, stdin, stdinClosed, hooks, stderrs, panicked, nHost, budget,
                   arrivedRN, dispatched, allocated>>

\* lib.rs:212-213 with send_host_request's println (lib.rs:321-326)
host_request_write(t) ==
    /\ pc[t] = "request:allocated"
    /\ ~panicked
    /\ IF to_value(cur[t].params).ok
       THEN /\ stdout' = Append(stdout, request_json(cur[t].id, cur[t].method,
                                                     to_value(cur[t].params).val))
            /\ pc' = [pc EXCEPT ![t] = "request:written"]
            /\ UNCHANGED <<cur, last>>
       ELSE /\ last' = Done("host_request", cur[t], 0, NoLine,
                            to_value(cur[t].params), <<>>)
            /\ pc' = [pc EXCEPT ![t] = "idle"]
            /\ cur' = [cur EXCEPT ![t] = NoCall]
            /\ UNCHANGED stdout
    /\ UNCHANGED <<id, stdin, stdinClosed, hooks, stderrs, panicked, nHost, budget,
                   arrivedRN, dispatched, allocated>>

\* lib.rs:214-229
host_request_read(t) ==
    /\ pc[t] = "request:sent"
    /\ ~panicked
    /\ CanRead
    /\ stdin' = AfterRead
    /\ last' = Done("host_request", cur[t], read_line.n, read_line.line,
                    host_request_result(read_line.line, cur[t].D), <<>>)
    /\ pc' = [pc EXCEPT ![t] = "idle"]
    /\ cur' = [cur EXCEPT ![t] = NoCall]
    /\ UNCHANGED <<id, stdinClosed, stdout, hooks, stderrs, panicked, nHost, budget,
                   arrivedRN, dispatched, allocated>>

----------------------------------------------------------------------------
(* host_notification, host_success, host_error (lib.rs:232-247) up to the  *)
(* println of send_host_notification / _success / _error                   *)

\* mutant of host_notification: a notification takes an id from the counter
host_notification_counted(t, m, p) ==
    /\ CanCall(t)
    /\ budget' = budget - 1
    /\ id' = fetch_add(id).new
    /\ IF to_value(p).ok
       THEN /\ stdout' = Append(stdout, notification_json(m, to_value(p).val))
            /\ pc' = [pc EXCEPT ![t] = "notification:written"]
            /\ cur' = [cur EXCEPT ![t] = Call("host_notification", N(0, 0), m, p, "Value")]
            /\ UNCHANGED last
       ELSE /\ last' = Done("host_notification",
                            Call("host_notification", N(0, 0), m, p, "Value"),
                            0, NoLine, to_value(p), <<>>)
            /\ UNCHANGED <<stdout, pc, cur>>
    /\ UNCHANGED <<stdin, stdinClosed, hooks, stderrs, panicked, nHost,
                   arrivedRN, dispatched, allocated>>

host_notification(t, m, p) ==
    /\ CanCall(t)
    /\ budget' = budget - 1
    /\ IF to_value(p).ok
       THEN /\ stdout' = Append(stdout, notification_json(m, to_value(p).val))
            /\ pc' = [pc EXCEPT ![t] = "notification:written"]
            /\ cur' = [cur EXCEPT ![t] = Call("host_notification", N(0, 0), m, p, "Value")]
            /\ UNCHANGED last
       ELSE /\ last' = Done("host_notification",
                            Call("host_notification", N(0, 0), m, p, "Value"),
                            0, NoLine, to_value(p), <<>>)
            /\ UNCHANGED <<stdout, pc, cur>>
    /\ UNCHANGED <<id, stdin, stdinClosed, hooks, stderrs, panicked, nHost,
                   arrivedRN, dispatched, allocated>>

host_success(t, i, p) ==
    /\ CanCall(t)
    /\ budget' = budget - 1
    /\ IF to_value(p).ok
       THEN /\ stdout' = Append(stdout, success_json(i, to_value(p).val))
            /\ pc' = [pc EXCEPT ![t] = "success:written"]
            /\ cur' = [cur EXCEPT ![t] = Call("host_success", i, "", p, "Value")]
            /\ UNCHANGED last
       ELSE /\ last' = Done("host_success", Call("host_success", i, "", p, "Value"),
                            0, NoLine, to_value(p), <<>>)
            /\ UNCHANGED <<stdout, pc, cur>>
    /\ UNCHANGED <<id, stdin, stdinClosed, hooks, stderrs, panicked, nHost,
                   arrivedRN, dispatched, allocated>>

\* mutant of host_error: the Error line is put in front of the lines
\* written so far
host_error_prepend(t, i, msg) ==
    /\ CanCall(t)
    /\ budget' = budget - 1
    /\ stdout' = <<error_json(i, msg)>> \o stdout
    /\ pc' = [pc EXCEPT ![t] = "error:written"]
    /\ cur' = [cur EXCEPT ![t] = Call("host_error", i, msg, Absent, "Value")]
    /\ UNCHANGED <<id, stdin, stdinClosed, hooks, stderrs, panicked, nHost,
                   arrivedRN, dispatched, allocated, last>>

host_error(t, i, msg) ==
    /\ CanCall(t)
    /\ budget' = budget - 1
    /\ stdout' = Append(stdout, error_json(i, msg))
    /\ pc' = [pc EXCEPT ![t] = "error:written"]
    /\ cur' = [cur EXCEPT ![t] = Call("host_error", i, msg, Absent, "Value")]
    /\ UNCHANGED <<id, stdin, stdinClosed, hooks, stderrs, panicked, nHost,
                   arrivedRN, dispatched, allocated, last>>

\* unsafe { host_handle_rpc() } (lib.rs:316, 327, 333, 346), then the
\* return of the send_host_* function and, but for host_request, of the call
Written == {"request:written", "notification:written", "success:written",
            "error:written"}
\* mutant of Signalled: send_host_notification returns without the hook
Signalled_skip(p, h) == IF p = "notification:written" THEN h ELSE h + 1
\* mutant of AfterSend: host_notification waits for a reply like host_request
AfterSend_await(p) ==
    IF p \in {"request:written", "notification:written"} THEN "request:sent" ELSE "idle"
\* the number of hook invocations after the one made at position p
Signalled(p, h) == h + 1
\* where the caller goes on after the send_host_* function returns:
\* host_request to its read (lib.rs:214), the others back to their caller
AfterSend(p) == IF p = "request:written" THEN "request:sent" ELSE "idle"

host_handle_rpc(t) ==
    /\ pc[t] \in Written
    /\ ~panicked
    /\ hooks' = Signalled(pc[t], hooks)
    /\ pc' = [pc EXCEPT ![t] = AfterSend(pc[t])]
    /\ IF AfterSend(pc[t]) # "idle"
       THEN UNCHANGED <<cur, last>>
       ELSE /\ last' = Done(cur[t].op, cur[t], 0, NoLine, Ok(Absent), <<>>)
            /\ cur' = [cur EXCEPT ![t] = NoCall]
    /\ UNCHANGED <<id, stdin, stdinClosed, stdout, stderrs, panicked, nHost, budget,
                   arrivedRN, dispatched, allocated>>

\* PluginServerRpcHandler::stderr (lib.rs:153-156)
stderr(t) ==
    /\ CanCall(t)
    /\ budget' = budget - 1
    /\ stderrs' = stderrs + 1
    /\ last' = Done("stderr", NoCall, 0, NoLine, Ok(Absent), <<>>)
    /\ UNCHANGED <<id, stdin, stdinClosed, stdout, hooks, pc, cur, panicked, nHost,
                   arrivedRN, dispatched, allocated>>

----------------------------------------------------------------------------
(* handle_rpc of register_plugin! (lib.rs:126-142): one call by the host   *)

handle_rpc ==
    /\ pc[Main] = "idle"
    /\ ~panicked
    /\ stdin # <<>>
    /\ stdin' = AfterRead
    /\ LET res == parse_stdin(read_line.line)
       IN  /\ panicked' = (res.r = "Panic")
           /\ dispatched' = IF Callbacks(res) # <<>>
                            THEN Append(dispatched, read_line.n)
                            ELSE dispatched
           /\ last' = Done("handle_rpc", NoCall, read_line.n, read_line.line,
                           IF res.r = "Err" THEN res.err ELSE Ok(Absent),
                           Callbacks(res))
    /\ UNCHANGED <<id, stdinClosed, stdout, hooks, stderrs, pc, cur, nHost, budget,
                   arrivedRN, allocated>>

----------------------------------------------------------------------------
(* The host                                                                *)

HostWrite(line) ==
    /\ nHost < MaxHostLines
    /\ ~stdinClosed
    /\ nHost' = nHost + 1
    /\ stdin' = Append(stdin, [n |-> nHost + 1, line |-> line])
    /\ arrivedRN' = IF parse_stdin(line).r = "Ok"
                    THEN arrivedRN \cup {nHost + 1}
                    ELSE arrivedRN
    /\ UNCHANGED <<id, stdinClosed, stdout, hooks, stderrs, pc, cur, panicked,
                   budget, dispatched, allocated, last>>

HostClose ==
    /\ ~stdinClosed
    /\ stdinClosed' = TRUE
    /\ UNCHANGED <<id, stdin, stdout, hooks, stderrs, pc, cur, panicked, nHost,
                   budget, arrivedRN, dispatched, allocated, last>>

----------------------------------------------------------------------------
(* Inputs                                                                  *)

Boom == RpcError(-32000, "boom")

\* ids a host line may carry: 5, "7", 2^63, null, "x", -1
HostIds == {IdNum(N(0, 5)), IdStr(<<"7">>), IdNum(N(1, 0)), IdNull, IdStr(<<"x">>),
            IdNum(N(0, -1))}

\* lines for the dispatch entry point
DispatchLines ==
    {RequestLine(i, "bar", p) : i \in HostIds, p \in {EmptyObj, Absent}}
    \cup {NotificationLine("bar", p) : p \in {EmptyObj, Absent}}
    \cup {SuccessLine(IdNum(N(0, 0)), ObjY2), ErrorLine(IdNum(N(0, 0)), Boom),
          Line(IdNum(N(0, 1)), <<>>, Absent, Absent, NoError), Garbage, BadUtf8}

\* lines for the whole bridge: replies to the first two requests, a host
\* request, a host notification and a line that is no JSON
BridgeLines ==
    {SuccessLine(IdNum(N(0, i)), ObjY2) : i \in 0..1}
    \cup {ErrorLine(IdNum(N(0, 0)), Boom), SuccessLine(IdNum(N(0, 0)), JNull),
          RequestLine(IdNum(N(0, 5)), "bar", EmptyObj),
          NotificationLine("bar", EmptyObj), Garbage}

\* ids the plugin answers with host_success / host_error: 5 and 2^63
AnswerIds == {N(0, 5), N(1, 0)}

\* what the plugin calls host_request and host_success with
RequestArgs == {<<ObjX1, "Value">>, <<ObjX1, "Struct">>, <<Unserializable, "Value">>}
SuccessArgs == {<<N(0, 5), ObjY2>>, <<N(1, 0), ObjY2>>, <<N(0, 5), Unserializable>>}

----------------------------------------------------------------------------
(* The bridge with one thread of control (the wasm instance).              *)

Next ==
    \/ \E l \in BridgeLines : HostWrite(l)
    \/ HostClose
    \/ handle_rpc
    \/ \E a \in RequestArgs : host_request_fetch_add(Main, "foo", a[1], a[2])
    \/ \E p \in {EmptyObj, Unserializable} : host_notification(Main, "ping", p)
    \/ \E a \in SuccessArgs : host_success(Main, a[1], a[2])
    \/ \E i \in AnswerIds : host_error(Main, i, "boom")
    \/ stderr(Main)
    \/ host_request_write(Main)
    \/ host_handle_rpc(Main)
    \/ host_request_read(Main)

Spec == Init /\ [][Next]_vars

----------------------------------------------------------------------------
(* The dispatch entry point alone, on every shape of line.                 *)

NextDispatch ==
    \/ \E l \in DispatchLines : HostWrite(l)
    \/ handle_rpc

SpecDispatch == Init /\ [][NextDispatch]_vars

----------------------------------------------------------------------------
(* Several threads calling host_request on the shared PLUGIN_RPC           *)
(* (lib.rs:26): the handler is Sync, and read_line and println! each take  *)
(* the stream's lock for one line.                                         *)

NextThreads ==
    \/ \E l \in {SuccessLine(IdNum(N(0, i)), ObjY2) : i \in 0..1} : HostWrite(l)
    \/ \E t \in Threads :
          \/ host_request_fetch_add(t, "foo", ObjX1, "Value")
          \/ host_request_write(t)
          \/ host_handle_rpc(t)
          \/ host_request_read(t)

InitThreads == Start(MaxAllocs)

SpecThreads == InitThreads /\ [][NextThreads]_vars

----------------------------------------------------------------------------
(* The codec alone: a message is encoded by the send_host_* function of    *)
(* its kind, the line written is fed back as the next inbound line, and    *)
(* handle_rpc decodes it with parse_stdin.  cur[Main] holds the message.   *)

\* ids over the range of u64: 0, 5, 2^63-1, 2^63, 2^64-1
CodecIds == {N(0, 0), N(0, 5), N(1, -1), N(1, 0), N(2, -1)}

CodecMessages ==
    {Call("host_request", i, m, p, "Value") :
        i \in CodecIds, m \in {"foo", "bar"}, p \in {EmptyObj, ObjX1}}
    \cup {Call("host_notification", N(0, 0), m, p, "Value") :
             m \in {"foo", "bar"}, p \in {EmptyObj, ObjX1}}
    \cup {Call("host_success", i, "", p, "Value") : i \in CodecIds, p \in {ObjY2, JNull}}
    \cup {Call("host_error", i, "boom", Absent, "Value") : i \in CodecIds}

\* the line send_host_request / _notification / _success / _error prints
\* for a message (lib.rs:310-348)
send_host_json(call) ==
    CASE call.op = "host_request" -> request_json(call.id, call.method, call.params)
      [] call.op = "host_notification" -> notification_json(call.method, call.params)
      [] call.op = "host_success" -> success_json(call.id, call.params)
      [] call.op = "host_error" -> error_json(call.id, call.method)

InitCodec ==
    /\ id = 0
    /\ stdin = <<>>
    /\ stdinClosed = FALSE
    /\ stdout = <<>>
    /\ hooks = 0
    /\ stderrs = 0
    /\ pc = [t \in Threads |-> "idle"]
    /\ cur \in {[t \in Threads |-> IF t = Main THEN m ELSE NoCall] : m \in CodecMessages}
    /\ panicked = FALSE
    /\ nHost = 0
    /\ budget = 0
    /\ arrivedRN = {}
    /\ dispatched = <<>>
    /\ allocated = <<>>
    /\ last = Nothing

\* object_to_stdout and the hook, for the message (lib.rs:305-348)
send_host(t) ==
    /\ stdout = <<>>
    /\ stdout' = <<send_host_json(cur[t])>>
    /\ hooks' = hooks + 1
    /\ UNCHANGED <<id, stdin, stdinClosed, stderrs, pc, cur, panicked, nHost, budget,
                   arrivedRN, dispatched, allocated, last>>

\* the line written comes back as the inbound line
Echo ==
    /\ stdout # <<>>
    /\ nHost = 0
    /\ HostWrite(stdout[1])

NextCodec ==
    \/ send_host(Main)
    \/ Echo
    \/ handle_rpc

SpecCodec == InitCodec /\ [][NextCodec]_vars

----------------------------------------------------------------------------
(* A request waiting for its reply.  Once host_request has called          *)
(* read_line (lib.rs:215) the call returns as soon as the stream has a     *)
(* line or has ended: the thread is running, so the step is weakly fair.   *)
(* Nothing obliges the host to write, or the plugin to call.               *)

LiveLines == {SuccessLine(IdNum(N(0, 0)), ObjY2), NotificationLine("bar", EmptyObj),
              Garbage}

NextLive ==
    \/ \E l \in LiveLines : HostWrite(l)
    \/ HostClose
    \/ handle_rpc
    \/ host_request_fetch_add(Main, "foo", ObjX1, "Value")
    \/ host_request_write(Main)
    \/ host_handle_rpc(Main)
    \/ host_request_read(Main)

SpecLive == Init /\ [][NextLive]_vars /\ WF_vars(host_request_read(Main))

----------------------------------------------------------------------------
(* Threads that notify the host and answer its requests while others wait  *)
(* for the reply to a request of their own, and the host calling           *)
(* handle_rpc on the main thread.                                          *)

ServeLines == {SuccessLine(IdNum(N(0, 0)), ObjY2),
               RequestLine(IdNum(N(0, 5)), "bar", EmptyObj)}

NextServe ==
    \/ \E l \in ServeLines : HostWrite(l)
    \/ handle_rpc
    \/ \E t \in Threads :
          \/ host_request_fetch_add(t, "foo", ObjX1, "Value")
          \/ host_request_write(t)
          \/ host_handle_rpc(t)
          \/ host_request_read(t)
          \/ host_notification(t, "ping", EmptyObj)
          \/ host_success(t, N(0, 5), ObjY2)
          \/ host_error(t, N(0, 5), "boom")

SpecServe == Init /\ [][NextServe]_vars

----------------------------------------------------------------------------
(* Vocabulary of the properties: what a line says, read off the line       *)
(* itself (section 6 of the specification), not off the decoder.           *)

\* the unsigned integer an id member denotes
Denotes(i) ==
    IF i.k = "num" THEN [ok |-> InU64(i.n), val |-> i.n]
    ELSE IF i.k = "str" THEN ParseU64(i.s)
    ELSE [ok |-> FALSE, val |-> N(0, 0)]

IsObject(line) == line.json = "object"
HasMethod(line) == line.method # <<>>
IsSuccessLine(line) ==
    /\ IsObject(line) /\ ~HasMethod(line)
    /\ line.id.k # "absent" /\ line.result.k # "absent" /\ line.error.k = "absent"
IsErrorLine(line) ==
    /\ IsObject(line) /\ ~HasMethod(line)
    /\ line.id.k # "absent" /\ line.error.k # "absent" /\ line.result.k = "absent"
IsRequestLine(line) ==
    /\ IsObject(line) /\ HasMethod(line) /\ Denotes(line.id).ok
    /\ line.result.k = "absent" /\ line.error.k = "absent"
IsNotificationLine(line) ==
    /\ IsObject(line) /\ HasMethod(line) /\ line.id.k = "absent"
    /\ line.result.k = "absent" /\ line.error.k = "absent"
\* the line carries a message with id i
HasId(line, i) ==
    /\ IsObject(line)
    /\ Denotes(line.id).ok
    /\ Denotes(line.id).val = i

\* a host_request call has just returned after reading a line
RequestReturned == last.op = "host_request" /\ last.line.json # "none"
\* handle_rpc has just returned (or panicked) after reading a line
Dispatched == last.op = "handle_rpc"

RECURSIVE Ascending(_)
Ascending(S) ==
    IF S = {} THEN <<>>
    ELSE LET m == CHOOSE x \in S : \A y \in S : x <= y
         IN  <<m>> \o Ascending(S \ {m})

----------------------------------------------------------------------------
\* C1: a blocking request sent with id i whose next inbound line does not
\* decode, or carries a message whose id is not i, fails with the
\* protocol-violation error (invalid request); it never returns Ok with the
\* result of a reply whose id differs from i.  The code never compares
\* ids: TLC finds this violated.
C1_MismatchIsProtocolViolation ==
    (RequestReturned /\ ~HasId(last.line, last.call.id))
        => last.outcome = invalid_request

\* C2: a blocking request sent with id i whose next inbound line is a
\* Success with id i returns the result of that line: unchanged when the
\* caller asks for a Value, and as the struct of the same members when the
\* caller asks for a struct and the result is an object.
C2_SuccessReturnsResult ==
    (RequestReturned /\ IsSuccessLine(last.line) /\ HasId(last.line, last.call.id))
        => /\ last.call.D = "Value" => last.outcome = Ok(last.line.result)
           /\ (last.call.D = "Struct" /\ last.line.result.k = "obj")
                 => /\ last.outcome.ok
                    /\ last.outcome.val.k = "struct"
                    /\ last.outcome.val.f = last.line.result.f

\* the first request of the process, id 0, answered with {"y":2}
C2_Witness ==
    /\ RequestReturned
    /\ last.call.id = N(0, 0)
    /\ last.call.D = "Value"
    /\ last.line = SuccessLine(IdNum(N(0, 0)), ObjY2)
    /\ last.outcome = Ok(ObjY2)

\* C3: a blocking request sent with id i whose next inbound line is an
\* Error with id i fails with the JSON-RPC error carrying exactly the code
\* and the message of that line, and does not return Ok.
C3_ErrorReturnsRemoteError ==
    (RequestReturned /\ IsErrorLine(last.line) /\ HasId(last.line, last.call.id))
        => /\ ~last.outcome.ok
           /\ last.outcome.kind = "JsonRpc"
           /\ last.outcome.code = last.line.error.code
           /\ last.outcome.message = last.line.error.message

C3_Witness ==
    /\ RequestReturned
    /\ last.call.id = N(0, 0)
    /\ last.line = ErrorLine(IdNum(N(0, 0)), Boom)
    /\ last.outcome = Err("JsonRpc", -32000, "boom")

\* C4: whatever the interleaving of the threads, the k-th id allocation
\* returns k-1: the values returned are 0, 1, ..., N-1, each once, and two
\* calls in progress never hold the same id.
C4_IdsAreZeroToN ==
    /\ \A k \in 1..Len(allocated) : allocated[k] = k - 1
    /\ \A t, u \in Threads :
          (t # u /\ cur[t].op = "host_request" /\ cur[u].op = "host_request")
              => cur[t].id # cur[u].id

\* every allocation of the run was made, two threads being inside
\* host_request at once
C4_Witness ==
    /\ Len(allocated) = MaxAllocs
    /\ \E t, u \in Threads :
          t # u /\ cur[t].op = "host_request" /\ cur[u].op = "host_request"

\* a line of text that decodes to no message: no JSON object, or an object
\* with neither a method nor a result nor an error
Undecodable(line) ==
    \/ line.json = "garbage"
    \/ /\ IsObject(line) /\ ~HasMethod(line)
       /\ line.result.k = "absent" /\ line.error.k = "absent"

\* C5: when handle_rpc is given a line that does not decode, or a Success
\* or Error line (no call is open while handle_rpc runs), the process does
\* not panic and the failure is reported to the stderr sink.  The code
\* reaches todo!(): TLC finds this violated.
C5_DispatchSurvivesBadLine ==
    (Dispatched /\ (Undecodable(last.line) \/ IsSuccessLine(last.line)
                                          \/ IsErrorLine(last.line)))
        => ~panicked /\ stderrs > 0

\* C6: every Request or Notification line of the host (here: every line
\* parse_stdin decodes to one) that has left the inbound stream has been
\* handed to a callback exactly once, in arrival order.  A line read by a
\* waiting host_request is lost: TLC finds this violated.
C6_EveryLineDispatchedInOrder ==
    dispatched = Ascending(arrivedRN \ {stdin[k].n : k \in 1..Len(stdin)})

\* C7: handle_rpc, given a Request line with id i, method m and params p,
\* invokes handle_request once with (i, m, p) and nothing else; given a
\* line with a method, params and no id, it invokes handle_notification
\* once with them and nothing else.  A numeric id of 2^63 or more does not
\* decode (C13): TLC finds this violated.
C7_CallbackPerLine ==
    Dispatched =>
        /\ (IsRequestLine(last.line) /\ last.line.params.k = "obj")
              => last.calls = <<[cb |-> "handle_request",
                                 id |-> Denotes(last.line.id).val,
                                 method |-> last.line.method[1],
                                 params |-> last.line.params]>>
        /\ (IsNotificationLine(last.line) /\ last.line.params.k = "obj")
              => last.calls = <<[cb |-> "handle_notification", id |-> N(0, 0),
                                 method |-> last.line.method[1],
                                 params |-> last.line.params]>>

\* the ids below 2^63, which the decoder accepts as a number or a string
Plain(i) == i.k = "absent" \/ (Denotes(i).ok /\ InI64(Denotes(i).val))
MissingParams(line) ==
    /\ IsRequestLine(line) \/ IsNotificationLine(line)
    /\ Plain(line.id)
    /\ line.params.k = "absent"

C9_HookOncePerLine ==
    /\ hooks + Cardinality({t \in Threads : pc[t] \in Written}) = Len(stdout)
    /\ \A t \in Threads :
          pc[t] = "request:sent"
              => /\ hooks = Len(stdout)
                 /\ stdout # <<>>
                 /\ stdout[Len(stdout)] =
                       request_json(cur[t].id, cur[t].method, cur[t].params)

\* a notification and then a request have been sent; the request is about
\* to read
C9_Witness ==
    /\ pc[Main] = "request:sent"
    /\ Len(stdout) = 2
    /\ hooks = 2
    /\ IsNotificationLine(stdout[1])

\* C10: a host_notification call whose params serialize appends exactly one
\* Notification line to stdout, reads nothing from stdin at either of its
\* steps, never moves to a position that reads, and returns Ok(()) with
\* no line delivered to it.
C10_NotifyNeverReads ==
    [][/\ (pc[Main] = "idle" /\ pc'[Main] = "notification:written")
            => /\ stdin' = stdin
               /\ stdout' = Append(stdout, notification_json(cur'[Main].method,
                                                            cur'[Main].params))
       /\ pc[Main] = "notification:written"
            => pc'[Main] \in {"notification:written", "idle"}
       /\ (pc[Main] = "notification:written" /\ pc'[Main] = "idle")
            => /\ stdin' = stdin
               /\ stdout' = stdout
               /\ last'.op = "host_notification"
               /\ last'.line = NoLine
               /\ last'.outcome = Ok(Absent)
      ]_vars

\* the notification has returned and a Success line the host sent is still
\* unread on the inbound stream
C10_Witness ==
    /\ last.op = "host_notification"
    /\ last.outcome = Ok(Absent)
    /\ pc[Main] = "idle"
    /\ stdout # <<>>
    /\ IsNotificationLine(stdout[Len(stdout)])
    /\ stdin # <<>>
    /\ IsSuccessLine(stdin[1].line)

----------------------------------------------------------------------------
\* C11: when handle_rpc is given a line with neither a method nor a result
\* nor an error, or text that is no JSON, or bytes that are no UTF-8, the
\* decoding fails with an error, no callback is invoked and the plugin is
\* left as it was: it has not panicked, its id counter is untouched and it
\* has written nothing.  No callback is invoked indeed, but the decoding
\* ends in todo!() (C5): TLC finds this violated.
C11_UndecodableLineIsDropped ==
    (Dispatched /\ (Undecodable(last.line) \/ last.line.json = "badutf8"))
        => /\ last.calls = <<>>
           /\ dispatched = <<>>
           /\ ~last.outcome.ok
           /\ ~panicked
           /\ id = 0 /\ stdout = <<>> /\ hooks = 0

----------------------------------------------------------------------------
\* C12: once a request has been resolved by a reply carrying its id, the
\* next request to return never takes a second line carrying that id as
\* its own reply: it fails with the protocol-violation error (invalid
\* request).  The code never compares ids (C1): TLC finds this violated.
C12_DuplicateReplyIsViolation ==
    [][(/\ RequestReturned
        /\ HasId(last.line, last.call.id)
        /\ IsSuccessLine(last.line) \/ IsErrorLine(last.line)
        /\ last'.op = "host_request"
        /\ last'.call.id # last.call.id
        /\ HasId(last'.line, last.call.id))
           => last'.outcome = invalid_request
      ]_vars

----------------------------------------------------------------------------
\* C13: handle_rpc, given a line with a method and params, normalizes its
\* id: an id that is a number or a string denoting an unsigned 64-bit
\* integer v is accepted, and handle_request gets v; a string that is no
\* unsigned integer is rejected with the integer-parsing error and a null
\* id with "id is not provided", no callback being invoked.  A number of
\* 2^63 or more does not deserialize as an Id: TLC finds this violated.
C13_IdNormalization ==
    (Dispatched /\ IsObject(last.line) /\ HasMethod(last.line)
                /\ last.line.params.k = "obj")
        => /\ Denotes(last.line.id).ok
                 => /\ Len(last.calls) = 1
                    /\ last.calls[1].cb = "handle_request"
                    /\ last.calls[1].id = Denotes(last.line.id).val
           /\ (last.line.id.k = "str" /\ ~Denotes(last.line.id).ok)
                 => /\ last.calls = <<>>
                    /\ last.outcome.kind = "ParseInt"
           /\ last.line.id.k = "null"
                 => /\ last.calls = <<>>
                    /\ last.outcome = Err("Other", 0, "id is not provided")

----------------------------------------------------------------------------
\* C14: a Request {id, method, params} or a Notification {method, params},
\* with the id anywhere in the range of u64, encoded by send_host_request
\* or send_host_notification and decoded by parse_stdin, comes back as the
\* message of the same kind with the same id, method and params (the
\* instance of the round trip for the two kinds parse_stdin returns; a
\* Success or Error line takes parse_stdin to todo!(), C5).  A Request
\* with an id of 2^63 or more does not decode: TLC finds this violated.
C14_CodecRoundTrip ==
    (Dispatched /\ cur[Main].op \in {"host_request", "host_notification"})
        => last.calls =
              <<[cb |-> IF cur[Main].op = "host_request"
                        THEN "handle_request" ELSE "handle_notification",
                 id |-> cur[Main].id,
                 method |-> cur[Main].method,
                 params |-> cur[Main].params]>>

----------------------------------------------------------------------------
\* the positions of a host_request call between its first step and its
\* return
InRequest(t) == pc[t] \in {"request:allocated", "request:written", "request:sent"}
\* the positions in stdout of the Request line of a call
RequestLinesOf(call, out) ==
    {k \in 1..Len(out) : out[k] = request_json(call.id, call.method, call.params)}

\* C15: a host_request call goes from idle through its positions in order
\* and back to idle, never backwards; the one step that writes appends
\* exactly its Request line, and no other step of the call touches stdout;
\* the one step that reads is the last, and takes at most the first line
\* of stdin; the call returns once, with one outcome, after which its
\* locals are gone; a call that has read a line has exactly one Request
\* line on stdout; and the outcome recorded for an id is never replaced by
\* another outcome for that id.
C15_RequestStateMachine ==
    [][/\ pc[Main] = "request:allocated"
            => pc'[Main] \in {"request:allocated", "request:written", "idle"}
       /\ pc[Main] = "request:written"
            => pc'[Main] \in {"request:written", "request:sent"}
       /\ pc[Main] = "request:sent"
            => pc'[Main] \in {"request:sent", "idle"}
       /\ InRequest(Main)
            => /\ stdout' = IF pc[Main] = "request:allocated"
                               /\ pc'[Main] = "request:written"
                            THEN Append(stdout, request_json(cur[Main].id,
                                                             cur[Main].method,
                                                             cur[Main].params))
                            ELSE stdout
               /\ IF pc[Main] = "request:sent" /\ pc'[Main] = "idle" /\ stdin # <<>>
                  THEN /\ stdin' = Tail(stdin)
                       /\ last'.line = Head(stdin).line
                  ELSE /\ Len(stdin') >= Len(stdin)
                       /\ SubSeq(stdin', 1, Len(stdin)) = stdin
       /\ (InRequest(Main) /\ pc'[Main] = "idle")
            => /\ last'.op = "host_request"
               /\ last'.call = cur[Main]
               /\ cur'[Main] = NoCall
               /\ pc[Main] = "request:sent"
                     => Cardinality(RequestLinesOf(cur[Main], stdout')) = 1
               /\ pc[Main] = "request:allocated"
                     => RequestLinesOf(cur[Main], stdout') = {}
       /\ (last.op = "host_request" /\ last'.op = "host_request"
             /\ last'.call.id = last.call.id)
            => last' = last
      ]_vars

\* the second request of the process has returned Ok after the first, each
\* with its one Request line and one line read
C15_Witness ==
    /\ RequestReturned
    /\ last.call.id = N(0, 1)
    /\ last.outcome.ok
    /\ pc[Main] = "idle"
    /\ Len(stdout) = 2
    /\ IsRequestLine(stdout[1]) /\ IsRequestLine(stdout[2])
    /\ stdin = <<>>
    /\ nHost = 2

----------------------------------------------------------------------------
\* a request has been written and signalled, and waits in read_line
Waiting == pc[Main] = "request:sent"

\* C16 as stated: a request that waits while stdin has no line does not
\* return, also when stdin has ended.  At end of input read_line returns
\* Ok(0) and the call returns: TLC finds this violated.
C16_NeverReturnsWithoutLine ==
    [][(Waiting /\ stdin = <<>>) => Waiting']_vars

\* C16 as amended: a request that waits while stdin is open and has no
\* line does not return; at end of input it returns the invalid-request
\* error; and a waiting request for which stdin has a line, or has ended,
\* eventually returns.
C16_BlocksUntilLineOrEnd ==
    /\ [][(Waiting /\ stdin = <<>> /\ ~stdinClosed) => Waiting']_vars
    /\ [][(Waiting /\ stdin = <<>> /\ stdinClosed /\ ~Waiting')
             => /\ last'.op = "host_request"
                /\ last'.line = EofLine
                /\ last'.outcome = invalid_request]_vars
    /\ (Waiting /\ (stdin # <<>> \/ stdinClosed))
          ~> (pc[Main] = "idle" /\ last.op = "host_request")

\* the request returned at end of input
C16_Witness ==
    /\ last.op = "host_request"
    /\ last.line = EofLine
    /\ last.outcome = invalid_request
    /\ stdinClosed
    /\ pc[Main] = "idle"

----------------------------------------------------------------------------
\* thread t makes the first step of the call that writes at position p
Calls(t, p) == pc[t] = "idle" /\ pc'[t] = p
\* the threads other than t are where they were, with the locals they had
OthersUntouched(t) ==
    \A u \in Threads \ {t} : pc'[u] = pc[u] /\ cur'[u] = cur[u]

\* C17: the id counter starts at 0; a step changes it if and only if it is
\* the first step of a host_request call, which adds one: the steps of
\* host_notification, host_success and host_error, the rest of
\* host_request, handle_rpc and the host's writes leave it alone.  A
\* host_success or host_error call appends one Success or Error line with
\* the id it was given and, at both of its steps, reads nothing, completes
\* no host_request and leaves every other thread, waiting for a reply or
\* not, where it was.
C17_IdCounterFrame ==
    /\ id = 0
    /\ [][/\ id' = IF \E t \in Threads : Calls(t, "request:allocated")
                   THEN id + 1 ELSE id
          /\ \A t \in Threads :
                /\ Calls(t, "success:written")
                      => stdout' = Append(stdout, success_json(cur'[t].id,
                                                               cur'[t].params))
                /\ Calls(t, "error:written")
                      => stdout' = Append(stdout, error_json(cur'[t].id,
                                                             cur'[t].method))
                /\ (Calls(t, "success:written") \/ Calls(t, "error:written"))
                      => /\ stdin' = stdin
                         /\ last' = last
                         /\ OthersUntouched(t)
                /\ (pc[t] \in {"success:written", "error:written"} /\ pc'[t] # pc[t])
                      => /\ pc'[t] = "idle"
                         /\ stdin' = stdin
                         /\ stdout' = stdout
                         /\ last'.op = cur[t].op
                         /\ last'.op \in {"host_success", "host_error"}
                         /\ OthersUntouched(t)
         ]_vars

\* a thread has answered the host with host_success while another waits
\* for the reply to the first request of the process
C17_Witness ==
    /\ last.op = "host_success"
    /\ id = 1
    /\ \E u \in Threads : pc[u] = "request:sent" /\ cur[u].id = N(0, 0)
    /\ Len(stdout) = 2
    /\ IsRequestLine(stdout[1])
    /\ stdout[2] = success_json(N(0, 5), ObjY2)

----------------------------------------------------------------------------
\* C18: with one thread of control, calls are made one after the other and
\* every step either leaves stdout as it is or is the writing step of the
\* call in progress, which puts that call's line after all the lines
\* written before; a notify, host_success or host_error call writes at its
\* first step and a request at the step after its id allocation; a call
\* that has written its line does not write again; and a call that
\* returns without having read has written.  So the lines of stdout are
\* the lines of the successful calls, one each, in the order of the calls.
C18_OutboundOrder ==
    [][/\ \/ stdout' = stdout
          \/ /\ pc[Main] \in {"idle", "request:allocated"}
             /\ pc'[Main] \in Written
             /\ cur'[Main].op # "none"
             /\ stdout' = Append(stdout, send_host_json(cur'[Main]))
       /\ (pc[Main] \in {"idle", "request:allocated"} /\ pc'[Main] \in Written)
             => stdout' # stdout
       /\ (pc[Main] = "idle" /\ pc'[Main] \notin {"idle", "request:allocated"})
             => pc'[Main] \in Written \ {"request:written"}
       /\ pc[Main] \in Written \cup {"request:sent"}
             => stdout' = stdout
       /\ (last' # last /\ last'.outcome.ok
             /\ last'.op \in {"host_notification", "host_success", "host_error"})
             => /\ pc[Main] \in Written
                /\ stdout[Len(stdout)] = send_host_json(last'.call)
      ]_vars

\* a notification and then an error reply have been written, in that order
C18_Witness ==
    /\ last.op = "host_error"
    /\ pc[Main] = "idle"
    /\ Len(stdout) = 2
    /\ IsNotificationLine(stdout[1])
    /\ stdout[2] = error_json(N(0, 5), "boom")

----------------------------------------------------------------------------
\* C19: the line host_success(v, result) or host_error(v, message) has
\* just written is a Success or Error line whose id denotes v, for v over
\* the range of u64.  For v of 2^63 or more `id as i64` writes a negative
\* number: TLC finds this violated.
C19_ReplyCarriesId ==
    \A t \in Threads :
        pc[t] \in {"success:written", "error:written"}
            => /\ stdout # <<>>
               /\ IsSuccessLine(stdout[Len(stdout)]) \/ IsErrorLine(stdout[Len(stdout)])
               /\ HasId(stdout[Len(stdout)], cur[t].id)

----------------------------------------------------------------------------
\* a host_request call has just returned the serialization error of its
\* params
SerializationFailed ==
    /\ last.op = "host_request"
    /\ last.line = NoLine
    /\ ~last.outcome.ok
    /\ last.outcome.kind = "Serde"

\* the ids of the Request lines on stdout, in the order of the lines
RECURSIVE RequestIds(_)
RequestIds(out) ==
    IF out = <<>> THEN <<>>
    ELSE IF IsRequestLine(Head(out)) THEN <<Head(out).id.n.lo>> \o RequestIds(Tail(out))
    ELSE RequestIds(Tail(out))

\* C20: a host_request call whose params do not serialize takes its id at
\* its first step, which touches nothing else, and returns the
\* serialization error at its second step, which writes no line, invokes
\* no hook, reads no line and leaves the counter one above the id taken;
\* no Request line with that id is on stdout; and the ids of the Request
\* lines on stdout are strictly increasing (hence pairwise distinct)
\* whether or not they are contiguous.
C20_SerializationFailure ==
    [][/\ (pc[Main] = "idle" /\ pc'[Main] = "request:allocated")
             => /\ stdout' = stdout /\ hooks' = hooks /\ stdin' = stdin
                /\ id' = id + 1
                /\ cur'[Main].id = N(0, id)
       /\ (pc[Main] = "request:allocated" /\ ~to_value(cur[Main].params).ok)
             => \/ UNCHANGED <<pc, stdout, hooks, last, id>>
                \/ /\ pc'[Main] = "idle"
                   /\ SerializationFailed'
                   /\ last'.call = cur[Main]
                   /\ stdout' = stdout /\ hooks' = hooks /\ stdin' = stdin
                   /\ id' = id
                   /\ id = cur[Main].id.lo + 1
                   /\ \A k \in 1..Len(stdout) :
                         IsRequestLine(stdout[k]) => ~HasId(stdout[k], cur[Main].id)
       /\ (SerializationFailed' /\ last' # last)
             => pc[Main] = "request:allocated" /\ ~to_value(cur[Main].params).ok
       /\ \A k, l \in 1..Len(RequestIds(stdout')) :
             k < l => RequestIds(stdout')[k] < RequestIds(stdout')[l]
      ]_vars

\* the first request failed to serialize and the second was written with
\* id 1: no Request line has id 0
C20_Witness ==
    /\ id = 2
    /\ RequestIds(stdout) = <<1>>
    /\ pc[Main] = "request:sent"

====
